---- MODULE Spec2Model ----
(***************************************************************************)
(* A model of vault (src/vault/main.py): a store of gpg-encrypted secrets  *)
(* kept as files below a storage root, with a .gpg-id recipient list per   *)
(* directory.                                                              *)
(*                                                                         *)
(* Strings are sequences of tokens: a token is a TLA+ string standing for  *)
(* a run of characters that holds none of the separators ".", ":", " "     *)
(* and "\n", or for one separator.  A path segment is a string, a          *)
(* pathlib.Path is the sequence of its segments below "/", and the file    *)
(* system maps the physical (".."-free) paths that exist to their nodes.   *)
(***************************************************************************)
EXTENDS Integers, Sequences, FiniteSets, TLC

VARIABLES fs, last, nops, run

vars == <<fs, last, nops, run>>

(***************************************************************************)
(* Bounds                                                                  *)
(***************************************************************************)
MaxOps == 3

(***************************************************************************)
(* Strings and path segments                                               *)
(***************************************************************************)
DOT == "."
NL == "\n"
DOTDOT == <<DOT, DOT>>
EXT == <<DOT, "gpg">>
GPGID == <<DOT, "gpg-id">>

Front(s) == SubSeq(s, 1, Len(s) - 1)
Last(s) == s[Len(s)]

\* str.startswith / str.endswith / str.removesuffix
StartsWith(s, pre) == Len(s) >= Len(pre) /\ SubSeq(s, 1, Len(pre)) = pre
EndsWith(s, suf) == Len(s) >= Len(suf) /\ SubSeq(s, Len(s) - Len(suf) + 1, Len(s)) = suf
RemoveSuffix(s, suf) == IF Len(suf) > 0 /\ EndsWith(s, suf) THEN SubSeq(s, 1, Len(s) - Len(suf)) ELSE s

\* pathlib: Path.parent, Path.parents, `root in path.parents`
Parent(p) == IF p = <<>> THEN p ELSE Front(p)
IsPrefix(r, p) == Len(r) <= Len(p) /\ SubSeq(p, 1, Len(r)) = r
InParents(r, p) == Len(r) < Len(p) /\ IsPrefix(r, p)

\* ctx.storage, the storage root (VAULT_STORAGE)
storage == << <<"s">> >>

(***************************************************************************)
(* The file system                                                         *)
(***************************************************************************)
Dir == [kind |-> "dir"]
File(d) == [kind |-> "file", data |-> d]
\* file contents: clear bytes, or gpg's ciphertext of `plain` for exactly `rcpts`
Clear(text) == [enc |-> FALSE, text |-> text]
Cipher(plain, rcpts) == [enc |-> TRUE, plain |-> plain, rcpts |-> rcpts]

\* markers for a path whose walk fails: a component is missing / is no directory
NoEnt == << <<>> >>
NotDir == << <<>>, <<>> >>
IsErr(q) == q = NoEnt \/ q = NotDir

\* the kernel's path walk: the physical location a lexical path denotes;
\* every component but the last must be an existing directory, ".." steps up
RECURSIVE Real(_, _)
Real(f, p) ==
    IF p = <<>> THEN <<>>
    ELSE LET q == Real(f, Front(p)) IN
         IF IsErr(q) THEN q
         ELSE IF q \notin DOMAIN f THEN NoEnt
         ELSE IF f[q].kind # "dir" THEN NotDir
         ELSE IF Last(p) = DOTDOT THEN Parent(q)
         ELSE Append(q, Last(p))

Exists(f, p) == Real(f, p) \in DOMAIN f
IsFile(f, p) == Exists(f, p) /\ f[Real(f, p)].kind = "file"
IsDir(f, p) == Exists(f, p) /\ f[Real(f, p)].kind = "dir"

Children(f, q) == {c \in DOMAIN f : Len(c) = Len(q) + 1 /\ IsPrefix(q, c)}

Put(f, q, node) == [x \in (DOMAIN f) \cup {q} |-> IF x = q THEN node ELSE f[x]]
Remove(f, q) == [x \in (DOMAIN f) \ {q} |-> f[x]]

\* os.mkdir: "ok", or the OSError raised
OsMkdir(f, p) ==
    LET q == Real(f, p) IN
    IF q = NoEnt THEN [err |-> "ENOENT", fs |-> f]
    ELSE IF q = NotDir THEN [err |-> "ENOTDIR", fs |-> f]
    ELSE IF q \in DOMAIN f THEN [err |-> "EEXIST", fs |-> f]
    ELSE [err |-> "ok", fs |-> Put(f, q, Dir)]

\* Path.mkdir(parents=True, exist_ok=True)
RECURSIVE Mkdir(_, _)
Mkdir(f, p) ==
    LET r == OsMkdir(f, p) IN
    IF r.err = "ok" THEN [ok |-> TRUE, fs |-> r.fs]
    ELSE IF r.err = "ENOENT" THEN
        IF Parent(p) = p THEN [ok |-> FALSE, fs |-> f]
        ELSE LET up == Mkdir(f, Parent(p)) IN
             IF ~up.ok THEN up
             ELSE LET again == OsMkdir(up.fs, p) IN
                  IF again.err = "ok" THEN [ok |-> TRUE, fs |-> again.fs]
                  ELSE [ok |-> again.err # "ENOENT" /\ IsDir(up.fs, p), fs |-> up.fs]
    ELSE [ok |-> IsDir(f, p), fs |-> f]

\* Path.write_bytes / Path.write_text: open(path, 'w') and write
WriteFile(f, p, data) ==
    LET q == Real(f, p) IN
    IF IsErr(q) \/ q = <<>> \/ (q \in DOMAIN f /\ f[q].kind = "dir")
    THEN [ok |-> FALSE, fs |-> f]
    ELSE [ok |-> TRUE, fs |-> Put(f, q, File(data))]

\* Path.unlink
Unlink(f, p) ==
    IF IsFile(f, p) THEN [ok |-> TRUE, fs |-> Remove(f, Real(f, p))]
    ELSE [ok |-> FALSE, fs |-> f]

\* os.rmdir: "ok", or the OSError raised
OsRmdir(f, p) ==
    LET q == Real(f, p) IN
    IF q = NoEnt \/ (~IsErr(q) /\ q \notin DOMAIN f) THEN [err |-> "ENOENT", fs |-> f]
    ELSE IF q = NotDir \/ f[q].kind # "dir" THEN [err |-> "ENOTDIR", fs |-> f]
    ELSE IF Last(p) = DOTDOT \/ Children(f, q) # {} THEN [err |-> "ENOTEMPTY", fs |-> f]
    ELSE IF q = <<>> THEN [err |-> "EBUSY", fs |-> f]
    ELSE [err |-> "ok", fs |-> Remove(f, q)]

\* Path.read_bytes: the file's contents
ReadFile(f, p) == f[Real(f, p)].data

(***************************************************************************)
(* Text: lines, ordering                                                   *)
(***************************************************************************)
\* the vocabulary in ascending order of Python's str comparison
TokenOrder == <<NL, " ", DOT, ":", "a", "d", "gpg", "gpg-id", "k1", "k2", "p1", "p2", "password", "s", "user", "v">>
Rank(t) == CHOOSE i \in 1..Len(TokenOrder) : TokenOrder[i] = t

RECURSIVE StrLess(_, _)
StrLess(a, b) ==
    IF b = <<>> THEN FALSE
    ELSE IF a = <<>> THEN TRUE
    ELSE IF a[1] # b[1] THEN Rank(a[1]) < Rank(b[1])
    ELSE StrLess(Tail(a), Tail(b))

\* sorted(strings), ascending, or descending when `desc`
RECURSIVE Sorted(_, _)
Sorted(S, desc) ==
    IF S = {} THEN <<>>
    ELSE LET m == CHOOSE x \in S : \A y \in S \ {x} : IF desc THEN StrLess(y, x) ELSE StrLess(x, y)
         IN <<m>> \o Sorted(S \ {m}, desc)

\* sep.join(strings)
RECURSIVE Join(_, _)
Join(ss, sep) ==
    IF ss = <<>> THEN <<>>
    ELSE IF Len(ss) = 1 THEN ss[1]
    ELSE ss[1] \o sep \o Join(Tail(ss), sep)

Find(s, t) == IF \E i \in 1..Len(s) : s[i] = t
              THEN CHOOSE i \in 1..Len(s) : s[i] = t /\ \A j \in 1..(i - 1) : s[j] # t
              ELSE 0

\* str.split(sep) for a one-token separator
RECURSIVE Split(_, _)
Split(s, t) ==
    LET i == Find(s, t) IN
    IF i = 0 THEN <<s>>
    ELSE <<SubSeq(s, 1, i - 1)>> \o Split(SubSeq(s, i + 1, Len(s)), t)

\* str.splitlines: no empty last line
SplitLines(s) ==
    LET parts == Split(s, NL) IN
    IF Last(parts) = <<>> THEN Front(parts) ELSE parts

\* str.rstrip
RECURSIVE RStrip(_)
RStrip(s) ==
    IF s # <<>> /\ Last(s) \in {" ", NL} THEN RStrip(Front(s)) ELSE s

(***************************************************************************)
(* PathCodec                                                               *)
(***************************************************************************)
\* ctx.storage / name: an absolute name replaces the storage root
JoinName(name) == IF name.abs THEN name.segs ELSE storage \o name.segs

\* f'{name}.gpg'
WithExt(name) == [name EXCEPT !.segs = Front(@) \o <<Last(@) \o EXT>>]

_resolve_subdir(name) ==
    LET subdir == JoinName(name) IN
    IF InParents(storage, subdir) THEN [ok |-> TRUE, path |-> subdir]
    ELSE [ok |-> FALSE, path |-> subdir]

_resolve_entry(name) ==
    LET entry == JoinName(WithExt(name)) IN
    IF InParents(storage, entry) THEN [ok |-> TRUE, path |-> entry]
    ELSE [ok |-> FALSE, path |-> entry]

\* _unresolve that strips the extension as often as the name ends in it
_unresolve_StripAll(entry) ==
    LET rel == SubSeq(entry, Len(storage) + 1, Len(entry)) IN
    IF rel = <<>> THEN rel
    ELSE Front(rel) \o <<RemoveSuffix(RemoveSuffix(Last(rel), EXT), EXT)>>

\* entry.relative_to(ctx.storage).as_posix().removesuffix('.gpg'), as segments
_unresolve(entry) ==
    LET rel == SubSeq(entry, Len(storage) + 1, Len(entry)) IN
    IF rel = <<>> THEN rel ELSE Front(rel) \o <<RemoveSuffix(Last(rel), EXT)>>

(***************************************************************************)
(* RecipientResolver                                                       *)
(***************************************************************************)
_read_gpgid(f, path) ==
    LET lines == SplitLines(ReadFile(f, path).text) IN
    {RStrip(lines[i]) : i \in 1..Len(lines)}

_write_gpgid(f, path, recipients) ==
    WriteFile(f, path, Clear(Join(Sorted(recipients, FALSE), <<NL>>)))

NoGpgid == <<>>

\* the loop of _find_gpgid, from directory `subdir`
RECURSIVE FindFrom(_, _, _)
FindFrom(f, root, subdir) ==
    IF InParents(root, subdir) \/ root = subdir THEN
        IF IsFile(f, Append(subdir, GPGID)) THEN Append(subdir, GPGID)
        ELSE IF Parent(subdir) = subdir THEN NoGpgid
        ELSE FindFrom(f, root, Parent(subdir))
    ELSE NoGpgid

_find_gpgid(f, root, entry) == FindFrom(f, root, Parent(entry))

(***************************************************************************)
(* CryptoGateway and load/store                                            *)
(***************************************************************************)
\* gpg --decrypt; `gpgOk` is whether the tool exits zero
_load(f, entry, gpgOk) ==
    IF ~IsFile(f, entry) THEN [res |-> "OSError", content |-> <<>>]
    ELSE LET data == ReadFile(f, entry) IN
         IF gpgOk /\ data.enc THEN [res |-> "ok", content |-> data.plain]
         ELSE [res |-> "CryptoFailure", content |-> <<>>]

_store(f, entry, content, gpgOk) ==
    LET gpgid == _find_gpgid(f, storage, entry) IN
    IF gpgid = NoGpgid THEN [res |-> "NotInitialized", fs |-> f]
    ELSE LET recipients == _read_gpgid(f, gpgid) IN
         IF ~gpgOk \/ recipients = {} THEN [res |-> "CryptoFailure", fs |-> f]
         ELSE LET made == Mkdir(f, Parent(entry)) IN
              IF ~made.ok THEN [res |-> "OSError", fs |-> made.fs]
              ELSE LET w == WriteFile(made.fs, entry, Cipher(content, recipients)) IN
                   [res |-> IF w.ok THEN "ok" ELSE "OSError", fs |-> w.fs]

(***************************************************************************)
(* AttributeCodec: attrs is the dict as the sequence of its <<key, value>>  *)
(* items in insertion order                                                *)
(***************************************************************************)
PASSWORD == <<"password">>

HasKey(attrs, key) == \E i \in 1..Len(attrs) : attrs[i][1] = key

\* attrs[key] = value
SetItem(attrs, key, value) ==
    IF HasKey(attrs, key)
    THEN [i \in 1..Len(attrs) |-> IF attrs[i][1] = key THEN <<key, value>> ELSE attrs[i]]
    ELSE Append(attrs, <<key, value>>)

\* line.split(': ', maxsplit=1): the index of the first ": ", or 0
FindColonSpace(line) ==
    IF \E i \in 1..(Len(line) - 1) : line[i] = ":" /\ line[i + 1] = " "
    THEN CHOOSE i \in 1..(Len(line) - 1) :
            /\ line[i] = ":" /\ line[i + 1] = " "
            /\ \A j \in 1..(i - 1) : ~(line[j] = ":" /\ line[j + 1] = " ")
    ELSE 0

\* the loop of _parse over lines[number..], `number` counted as enumerate does
RECURSIVE ParseLines(_, _, _)
ParseLines(lines, number, attrs) ==
    IF number >= Len(lines) THEN [ok |-> TRUE, attrs |-> attrs]
    ELSE LET line == lines[number + 1]
             at == FindColonSpace(line)
             key == SubSeq(line, 1, at - 1)
             value == SubSeq(line, at + 2, Len(line))
         IN IF line = <<>> THEN ParseLines(lines, number + 1, attrs)
            ELSE IF at = 0 THEN [ok |-> FALSE, line |-> number, reason |-> "invalid key-value format"]
            ELSE IF key = PASSWORD THEN [ok |-> FALSE, line |-> number, reason |-> "disallowed key"]
            ELSE IF HasKey(attrs, key) THEN [ok |-> FALSE, line |-> number, reason |-> "repeated key"]
            ELSE ParseLines(lines, number + 1, Append(attrs, <<key, value>>))

_parse(content) ==
    LET all == SplitLines(content)
        password == IF all # <<>> THEN all[1] ELSE <<>>
        lines == IF all # <<>> THEN Tail(all) ELSE all
    IN ParseLines(lines, 0, << <<PASSWORD, password>> >>)

_format(attrs) ==
    LET password == IF HasKey(attrs, PASSWORD)
                    THEN attrs[CHOOSE i \in 1..Len(attrs) : attrs[i][1] = PASSWORD][2]
                    ELSE <<>>
        rest == SelectSeq(attrs, LAMBDA kv : kv[1] # PASSWORD)
        illegal == \E i \in 1..Len(rest) : \E j \in 1..Len(rest[i][1]) : rest[i][1][j] \in {":", " "}
        lines == <<password>> \o [i \in 1..Len(rest) |-> rest[i][1] \o <<":", " ">> \o rest[i][2]]
    IN IF illegal THEN [ok |-> FALSE, content |-> <<>>]
       ELSE [ok |-> TRUE, content |-> Join(lines, <<NL>>)]

(***************************************************************************)
(* TreeWalker                                                              *)
(***************************************************************************)
\* base.iterdir(): the entries of a directory, in the order the file system
\* gives them (ascending or descending by name here)
IterDir(f, base, desc) ==
    LET q == Real(f, base)
        names == {Last(c) : c \in Children(f, q)}
        order == Sorted(names, desc)
    IN [i \in 1..Len(order) |-> Append(base, order[i])]

RECURSIVE _iter(_, _, _, _, _, _)
RECURSIVE IterOver(_, _, _, _, _, _)
\* the loop of _iter without its test for hidden entries
IterOver_Hidden(f, paths, desc, recursive, include_dirs, include_files) ==
    IF paths = <<>> THEN <<>>
    ELSE LET path == paths[1]
             here == IF IsFile(f, path) THEN
                         IF EndsWith(Last(path), EXT) /\ include_files THEN <<path>> ELSE <<>>
                     ELSE IF IsDir(f, path) THEN
                         (IF include_dirs THEN <<path>> ELSE <<>>)
                         \o (IF recursive
                             THEN _iter(f, path, desc, TRUE, include_dirs, include_files)
                             ELSE <<>>)
                     ELSE <<>>
         IN here \o IterOver(f, Tail(paths), desc, recursive, include_dirs, include_files)

\* the for loop of _iter over the entries `paths`
IterOver(f, paths, desc, recursive, include_dirs, include_files) ==
    IF paths = <<>> THEN <<>>
    ELSE LET path == paths[1]
             here == IF StartsWith(Last(path), <<DOT>>) THEN <<>>
                     ELSE IF IsFile(f, path) THEN
                         IF EndsWith(Last(path), EXT) /\ include_files THEN <<path>> ELSE <<>>
                     ELSE IF IsDir(f, path) THEN
                         (IF include_dirs THEN <<path>> ELSE <<>>)
                         \o (IF recursive
                             THEN _iter(f, path, desc, TRUE, include_dirs, include_files)
                             ELSE <<>>)
                     ELSE <<>>
         IN here \o IterOver(f, Tail(paths), desc, recursive, include_dirs, include_files)

_iter(f, base, desc, recursive, include_dirs, include_files) ==
    IterOver(f, IterDir(f, base, desc), desc, recursive, include_dirs, include_files)

(***************************************************************************)
(* VaultStore: the helpers                                                 *)
(***************************************************************************)
RECURSIVE _rmdir_recursive(_, _, _)
_rmdir_recursive(f, root, path) ==
    IF ~InParents(root, path) THEN [ok |-> TRUE, fs |-> f]
    ELSE LET r == OsRmdir(f, path) IN
         IF r.err = "ok" THEN _rmdir_recursive(r.fs, root, Parent(path))
         ELSE [ok |-> r.err \in {"ENOENT", "ENOTEMPTY"}, fs |-> f]

_delete(f, root, entry) ==
    LET u == Unlink(f, entry) IN
    IF ~u.ok THEN [res |-> "OSError", fs |-> f]
    ELSE LET r == _rmdir_recursive(u.fs, root, Parent(entry)) IN
         [res |-> IF r.ok THEN "ok" ELSE "OSError", fs |-> r.fs]

\* _copy without its check of the destination
_copy_Overwrite(f, source, destination, force, gpg) ==
    IF ~IsFile(f, source) THEN [res |-> "SourceNotFound", fs |-> f]
    ELSE LET target == IF IsDir(f, destination)
                       THEN Append(destination, Last(source))
                       ELSE destination
             loaded == _load(f, source, gpg # "decrypt")
         IN IF loaded.res # "ok" THEN [res |-> loaded.res, fs |-> f]
            ELSE _store(f, target, loaded.content, gpg # "encrypt")

\* gpg is "ok", or names the gpg call that exits non-zero: "decrypt", "encrypt"
_copy(f, source, destination, force, gpg) ==
    IF ~IsFile(f, source) THEN [res |-> "SourceNotFound", fs |-> f]
    ELSE LET target == IF IsDir(f, destination)
                       THEN Append(destination, Last(source))
                       ELSE destination
         IN IF Exists(f, target) /\ ~force THEN [res |-> "DestinationExists", fs |-> f]
            ELSE LET loaded == _load(f, source, gpg # "decrypt") IN
                 IF loaded.res # "ok" THEN [res |-> loaded.res, fs |-> f]
                 ELSE _store(f, target, loaded.content, gpg # "encrypt")

\* _move that deletes the source whether or not the copy succeeded
_move_DeleteAlways(f, source, destination, force, gpg) ==
    LET copied == _copy(f, source, destination, force, gpg) IN
    IF copied.res # "ok" THEN [res |-> copied.res, fs |-> _delete(copied.fs, storage, source).fs]
    ELSE _delete(copied.fs, storage, source)

_move(f, source, destination, force, gpg) ==
    LET copied == _copy(f, source, destination, force, gpg) IN
    IF copied.res # "ok" THEN copied
    ELSE _delete(copied.fs, storage, source)

\* _edit: the editor's exit and the modification time decide; `edit` is
\* "saved" when the editor exits zero with a later mtime, else "aborted"
_edit(edit) == edit = "saved"

(***************************************************************************)
(* The commands: each gives the command's outcome and the file system it   *)
(* leaves                                                                  *)
(***************************************************************************)
\* the loop of init over the secrets `paths`; the gpg call for secret number
\* failAt exits non-zero (none when failAt = 0)
RECURSIVE ReEncrypt(_, _, _, _)
ReEncrypt(f, paths, i, failAt) ==
    IF i > Len(paths) THEN [res |-> "ok", fs |-> f]
    ELSE LET loaded == _load(f, paths[i], i # failAt) IN
         IF loaded.res # "ok" THEN [res |-> loaded.res, fs |-> f]
         ELSE LET stored == _store(f, paths[i], loaded.content, TRUE) IN
              IF stored.res # "ok" THEN stored
              ELSE ReEncrypt(stored.fs, paths, i + 1, failAt)

\* init that writes the new recipient alone, dropping those the file held
init_NoUnion(f, keyid, subdir, force, desc, failAt) ==
    LET r == _resolve_subdir(subdir)
        base == IF subdir.segs # <<>> \/ subdir.abs THEN r.path ELSE storage
        keyfile == Append(base, GPGID)
        made == Mkdir(f, base)
        written == _write_gpgid(made.fs, keyfile, {keyid})
    IN IF base # storage /\ ~r.ok THEN [res |-> "PathEscape", fs |-> f]
       ELSE IF IsFile(f, keyfile) /\ ~force THEN [res |-> "AlreadyInitialized", fs |-> f]
       ELSE IF ~made.ok THEN [res |-> "OSError", fs |-> made.fs]
       ELSE IF ~written.ok THEN [res |-> "OSError", fs |-> written.fs]
       ELSE ReEncrypt(written.fs, _iter(written.fs, base, desc, TRUE, FALSE, TRUE), 1, failAt)

init(f, keyid, subdir, force, desc, failAt) ==
    LET r == _resolve_subdir(subdir)
        base == IF subdir.segs # <<>> \/ subdir.abs THEN r.path ELSE storage
        keyfile == Append(base, GPGID)
        recipients == (IF IsFile(f, keyfile) THEN _read_gpgid(f, keyfile) ELSE {}) \cup {keyid}
        made == Mkdir(f, base)
        written == _write_gpgid(made.fs, keyfile, recipients)
    IN IF base # storage /\ ~r.ok THEN [res |-> "PathEscape", fs |-> f]
       ELSE IF IsFile(f, keyfile) /\ ~force THEN [res |-> "AlreadyInitialized", fs |-> f]
       ELSE IF ~made.ok THEN [res |-> "OSError", fs |-> made.fs]
       ELSE IF ~written.ok THEN [res |-> "OSError", fs |-> written.fs]
       ELSE ReEncrypt(written.fs, _iter(written.fs, base, desc, TRUE, FALSE, TRUE), 1, failAt)

create(f, name, tty, edit, content, gpgOk) ==
    LET r == _resolve_entry(name)
        entry == r.path
    IN IF ~r.ok THEN [res |-> "PathEscape", fs |-> f]
       ELSE IF Exists(f, entry) THEN [res |-> "Exists", fs |-> f]
       ELSE IF tty /\ ~_edit(edit) THEN [res |-> "EditAborted", fs |-> f]
       ELSE _store(f, entry, content, gpgOk)

update(f, name, key, tty, edit, content, value, gpg) ==
    LET r == _resolve_entry(name)
        entry == r.path
        loaded == _load(f, entry, gpg # "decrypt")
        parsed == _parse(loaded.content)
        formatted == _format(SetItem(parsed.attrs, key, value))
    IN IF ~r.ok THEN [res |-> "PathEscape", fs |-> f]
       ELSE IF ~IsFile(f, entry) THEN [res |-> "NotFound", fs |-> f]
       ELSE IF loaded.res # "ok" THEN [res |-> loaded.res, fs |-> f]
       ELSE IF tty THEN
           IF key # <<>> THEN [res |-> "Usage", fs |-> f]
           ELSE IF ~_edit(edit) THEN [res |-> "EditAborted", fs |-> f]
           ELSE _store(f, entry, content, gpg # "encrypt")
       ELSE IF key # <<>> THEN
           IF ~parsed.ok THEN [res |-> "ParseError", fs |-> f]
           ELSE IF ~formatted.ok THEN [res |-> "FormatError", fs |-> f]
           ELSE _store(f, entry, formatted.content, gpg # "encrypt")
       ELSE _store(f, entry, content, gpg # "encrypt")

delete(f, name) ==
    LET r == _resolve_entry(name) IN
    IF ~r.ok THEN [res |-> "PathEscape", fs |-> f]
    ELSE IF ~IsFile(f, r.path) THEN [res |-> "NotFound", fs |-> f]
    ELSE _delete(f, storage, r.path)

copy(f, source, destination, force, gpg) ==
    LET s == _resolve_entry(source)
        d == _resolve_entry(destination)
    IN IF ~s.ok \/ ~d.ok THEN [res |-> "PathEscape", fs |-> f]
       ELSE _copy(f, s.path, d.path, force, gpg)

move(f, source, destination, force, gpg) ==
    LET s == _resolve_entry(source)
        d == _resolve_entry(destination)
    IN IF ~s.ok \/ ~d.ok THEN [res |-> "PathEscape", fs |-> f]
       ELSE _move(f, s.path, d.path, force, gpg)

store(f, name, content, gpgOk) ==
    LET r == _resolve_entry(name)
        made == Mkdir(f, Parent(r.path))
    IN IF ~r.ok THEN [res |-> "PathEscape", fs |-> f]
       ELSE IF ~made.ok THEN [res |-> "OSError", fs |-> made.fs]
       ELSE _store(made.fs, r.path, content, gpgOk)

(***************************************************************************)
(* Inputs                                                                  *)
(***************************************************************************)
Rel(segs) == [abs |-> FALSE, segs |-> segs]
Abs(segs) == [abs |-> TRUE, segs |-> segs]
NoName == Rel(<<>>)

A == <<"a">>
D == <<"d">>
S == <<"s">>

EntryNames == {Rel(<<A>>), Rel(<<D>>), Rel(<<D, A>>), Rel(<<D, DOTDOT, A>>),
               Rel(<<DOTDOT, S, A>>), Abs(<<A>>)}
SubdirNames == {NoName, Rel(<<D>>), Rel(<<DOTDOT>>), Abs(<<D>>)}
KeyIds == {<<"k1">>, <<"k2">>}
Contents == {<<"p1">>, <<"p2">>}
Keys == {<<"user">>}
Values == {<<"v">>}
GpgFaults == {"ok", "decrypt", "encrypt"}

(***************************************************************************)
(* The state machine: one command per step                                 *)
(***************************************************************************)
\* `last` records the command just run: its name, its outcome, its name
\* arguments a and b, its force flag and key id, and whether the file it
\* was to write (the entry, the copy's target, init's recipient file)
\* existed before it ran.  `run` holds the invocations that are under way,
\* each with its position and its locals: a command that runs alone, from
\* start to end, leaves none behind
Did(op, r, a, b, force, keyid) ==
    /\ fs' = r.fs
    /\ last' = [op |-> op, res |-> r.res, a |-> a, b |-> b, force |-> force, keyid |-> keyid,
                existed |-> IF op = "init"
                            THEN IsFile(fs, Append(IF a = NoName THEN storage ELSE JoinName(a), GPGID))
                            ELSE IF op \in {"copy", "move"}
                            THEN Exists(fs, IF IsDir(fs, _resolve_entry(b).path)
                                            THEN Append(_resolve_entry(b).path, Last(_resolve_entry(a).path))
                                            ELSE _resolve_entry(b).path)
                            ELSE Exists(fs, _resolve_entry(a).path)]
    /\ nops' = nops + 1
    /\ run' = run

\* the disk before the first command: nothing but "/", or a store that
\* `init k1` and `store a` (content p1) have set up
Bare == (<<>> :> Dir)
Seeded == store(init(Bare, <<"k1">>, NoName, FALSE, FALSE, 0).fs, Rel(<<A>>), <<"p1">>, TRUE).fs

Init ==
    /\ fs \in {Bare, Seeded}
    /\ last = [op |-> "none", res |-> "ok", a |-> NoName, b |-> NoName, force |-> FALSE, keyid |-> <<>>,
               existed |-> FALSE]
    /\ nops = 0
    /\ run = <<>>

\* the secrets of the file system
Secrets(f) == {q \in DOMAIN f : f[q].kind = "file" /\ f[q].data.enc}

InitCmd ==
    \E keyid \in KeyIds, subdir \in SubdirNames, force \in BOOLEAN, desc \in BOOLEAN,
       failAt \in 0..Cardinality(Secrets(fs)) :
        Did("init", init(fs, keyid, subdir, force, desc, failAt), subdir, NoName, force, keyid)

CreateCmd ==
    \E name \in EntryNames, tty \in BOOLEAN, gpgOk \in BOOLEAN :
    \E edit \in IF tty THEN {"saved", "aborted"} ELSE {"none"} :
    \E content \in IF edit = "aborted" THEN {<<>>} ELSE Contents :
        Did("create", create(fs, name, tty, edit, content, gpgOk), name, NoName, FALSE, <<>>)

UpdateCmd ==
    \E name \in EntryNames, key \in Keys \cup {<<>>}, tty \in BOOLEAN, gpg \in GpgFaults :
    \E edit \in IF tty /\ key = <<>> THEN {"saved", "aborted"} ELSE {"none"} :
    \E content \in IF key # <<>> \/ edit = "aborted" THEN {<<>>} ELSE Contents :
    \E value \in IF key # <<>> /\ ~tty THEN Values ELSE {<<>>} :
        Did("update", update(fs, name, key, tty, edit, content, value, gpg), name, NoName, FALSE, <<>>)

DeleteCmd ==
    \E name \in EntryNames :
        Did("delete", delete(fs, name), name, NoName, FALSE, <<>>)

CopyCmd ==
    \E source \in EntryNames, destination \in EntryNames, force \in BOOLEAN, gpg \in GpgFaults :
        Did("copy", copy(fs, source, destination, force, gpg), source, destination, force, <<>>)

MoveCmd ==
    \E source \in EntryNames, destination \in EntryNames, force \in BOOLEAN, gpg \in GpgFaults :
        Did("move", move(fs, source, destination, force, gpg), source, destination, force, <<>>)

StoreCmd ==
    \E name \in EntryNames, content \in Contents, gpgOk \in BOOLEAN :
        Did("store", store(fs, name, content, gpgOk), name, NoName, FALSE, <<>>)

Next ==
    /\ nops < MaxOps
    /\ \/ InitCmd
       \/ CreateCmd
       \/ UpdateCmd
       \/ DeleteCmd
       \/ CopyCmd
       \/ MoveCmd
       \/ StoreCmd

Spec == Init /\ [][Next]_vars

(***************************************************************************)
(* The codecs by themselves: one call per step, on inputs drawn from       *)
(* small sets; `last` records the call and what it gave                    *)
(***************************************************************************)
MaxAttrs == 2
MaxLines == 3
MaxDepth == 3

\* the sequences over the set E of length at most n
RECURSIVE SeqsUpTo(_, _)
SeqsUpTo(E, n) ==
    IF n = 0 THEN {<<>>}
    ELSE LET T == SeqsUpTo(E, n - 1) IN
         T \cup {Append(t, x) : t \in {u \in T : Len(u) = n - 1}, x \in E}

\* passwords, attribute keys and attribute values of a secret's body
CodecPasswords == {<<>>, <<"p1">>, <<"p1", NL, "p2">>}
CodecKeys == {<<"user">>, <<"a">>, <<>>, <<"a", ":", "d">>, <<"a", " ", "d">>}
CodecValues == {<<>>, <<"v">>, <<"v", ":", " ", "v">>, <<"v", NL, "v">>}

\* the dicts _format is given: the password first, then up to MaxAttrs
\* items with distinct keys
CodecDicts ==
    {<< <<PASSWORD, pw>> >> \o items :
        pw \in CodecPasswords,
        items \in {s \in SeqsUpTo(CodecKeys \X CodecValues, MaxAttrs) :
                      \A i, j \in 1..Len(s) : i # j => s[i][1] # s[j][1]}}

\* the lines of a body below its password line
BodyLines == {<<>>, <<"user", ":", " ", "v">>, <<"user", ":", " ", "p1">>, <<"a", ":", " ", "v">>,
              <<"password", ":", " ", "v">>, <<"v">>, <<"v", ":", "v">>}

\* logical names: up to MaxDepth segments, some ending in the extension
NameSegs == {A, D, A \o EXT, <<"a", DOT, "d">>}
ResolveNames == {Rel(n) : n \in SeqsUpTo(NameSegs, MaxDepth) \ {<<>>}} \cup EntryNames

\* the lines of a recipient file, and the identifiers init is given
GpgidLines == {<<>>, <<"k1">>, <<"k2">>, <<" ", "k1">>, <<"k1", " ">>}
GpgidIds == {<<"k1">>, <<"k2">>, <<"a">>}

\* a store with nothing but the recipient file of the root, holding `text`
WithGpgid(text) ==
    Put(Put(Bare, storage, Dir), Append(storage, GPGID), File(Clear(text)))

\* _format(attrs), then _parse of what it gave
RoundTripCall ==
    \E x \in CodecDicts :
        LET formatted == _format(x) IN
        /\ last' = [op |-> "_format", x |-> x, formatted |-> formatted,
                    parsed |-> IF formatted.ok THEN _parse(formatted.content) ELSE [ok |-> FALSE]]
        /\ UNCHANGED <<fs, nops, run>>

\* _parse(content) for the content with the given lines
ParseCall ==
    \E pw \in {<<>>, <<"p1">>}, below \in SeqsUpTo(BodyLines, MaxLines) :
        LET lines == <<pw>> \o below IN
        /\ last' = [op |-> "_parse", lines |-> lines, out |-> _parse(Join(lines, <<NL>>))]
        /\ UNCHANGED <<fs, nops, run>>

\* _unresolve(_resolve_entry(name))
ResolveCall ==
    \E name \in ResolveNames :
        LET r == _resolve_entry(name) IN
        /\ last' = [op |-> "_unresolve", name |-> name, entry |-> r,
                    out |-> IF r.ok THEN _unresolve(r.path) ELSE <<>>]
        /\ UNCHANGED <<fs, nops, run>>

\* _read_gpgid(path) for a file with the given lines
ReadGpgidCall ==
    \E lines \in SeqsUpTo(GpgidLines, MaxLines), end \in {<<>>, <<NL>>} :
        LET text == Join(lines, <<NL>>) \o end IN
        /\ last' = [op |-> "_read_gpgid", text |-> text,
                    out |-> _read_gpgid(WithGpgid(text), Append(storage, GPGID))]
        /\ UNCHANGED <<fs, nops, run>>

\* _write_gpgid(path, recipients) over a file that holds `old`, then
\* _read_gpgid of what it wrote
WriteGpgidCall ==
    \E recipients \in SUBSET GpgidIds, old \in {<<>>, <<"k1", NL, "k2">>} :
        LET written == _write_gpgid(WithGpgid(old), Append(storage, GPGID), recipients) IN
        /\ last' = [op |-> "_write_gpgid", recipients |-> recipients, old |-> old,
                    ok |-> written.ok,
                    text |-> ReadFile(written.fs, Append(storage, GPGID)).text,
                    out |-> _read_gpgid(written.fs, Append(storage, GPGID))]
        /\ UNCHANGED <<fs, nops, run>>

CodecInit ==
    /\ fs = Bare
    /\ last = [op |-> "none"]
    /\ nops = 0
    /\ run = <<>>

\* one call in each behaviour
CodecNext ==
    /\ last.op = "none"
    /\ \/ RoundTripCall
       \/ ParseCall
       \/ ResolveCall
       \/ ReadGpgidCall
       \/ WriteGpgidCall

CodecSpec == CodecInit /\ [][CodecNext]_vars

(***************************************************************************)
(* The tree walk by itself: one call of _iter on a tree drawn from a set   *)
(* of small trees                                                          *)
(***************************************************************************)
\* what a tree may hold below the storage root: secrets, a file without
\* the extension, hidden files and directories, a directory named like a
\* secret, directories within directories
WalkNodes ==
    LET secret == File(Cipher(<<"p1">>, {<<"k1">>}))
        hidden == <<DOT, "d">>
    IN (<<S, A \o EXT>> :> secret) @@ (<<S, A>> :> File(Clear(<<>>)))
       @@ (<<S, D>> :> Dir) @@ (<<S, D, A \o EXT>> :> secret)
       @@ (<<S, D, <<DOT>> \o A \o EXT>> :> secret)
       @@ (<<S, D, D>> :> Dir) @@ (<<S, D, D, A \o EXT>> :> secret)
       @@ (<<S, hidden>> :> Dir) @@ (<<S, hidden, A \o EXT>> :> secret)
       @@ (<<S, D \o EXT>> :> Dir) @@ (<<S, D \o EXT, A \o EXT>> :> secret)

\* the trees: the storage root with some of these nodes, each with its parent
WalkTrees ==
    {[q \in {<<>>, storage} \cup N |-> IF q \in N THEN WalkNodes[q] ELSE Dir] :
        N \in {M \in SUBSET DOMAIN WalkNodes :
                  \A q \in M : Parent(q) = storage \/ Parent(q) \in M}}

WalkInit ==
    /\ fs \in WalkTrees
    /\ last = [op |-> "none"]
    /\ nops = 0
    /\ run = <<>>

\* _iter(base, recursive, include_dirs, include_files), the file system
\* listing each directory in ascending or in descending order
IterCall ==
    \E base \in {storage, Append(storage, D)}, desc \in BOOLEAN, recursive \in BOOLEAN,
       include_dirs \in BOOLEAN, include_files \in BOOLEAN :
        /\ IsDir(fs, base)
        /\ last' = [op |-> "_iter", base |-> base, recursive |-> recursive,
                    include_dirs |-> include_dirs, include_files |-> include_files,
                    out |-> _iter(fs, base, desc, recursive, include_dirs, include_files)]
        /\ UNCHANGED <<fs, nops, run>>

\* one call in each behaviour
WalkNext ==
    /\ last.op = "none"
    /\ IterCall

WalkSpec == WalkInit /\ [][WalkNext]_vars

(***************************************************************************)
(* update of one key, value from standard input, on a store whose secret   *)
(* `a` holds one of several bodies                                         *)
(***************************************************************************)
UpdateBodies == {<<>>, <<"p1">>, <<"p1", NL, "v">>,
                 <<"p1", NL, "user", ":", " ", "p2", NL, "a", ":", " ", "v">>,
                 <<"p1", NL, NL, "a", ":", " ", "v", NL, "user", ":", " ", "p2">>}
UpdateKeys == {<<"user">>, <<"d">>, PASSWORD, <<"a", ":", "d">>, <<"a", " ", "d">>}
UpdateValues == {<<>>, <<"v">>, <<"v", NL, "v">>, <<"v", ":", " ", "v">>}

UpdateInit ==
    /\ fs \in {store(init(Bare, <<"k1">>, NoName, FALSE, FALSE, 0).fs, Rel(<<A>>), body, TRUE).fs :
                 body \in UpdateBodies}
    /\ last = [op |-> "none", res |-> "ok"]
    /\ nops = 0
    /\ run = <<>>

\* `vault update a <key>` with `value` on standard input, no terminal
UpdateKeyCmd ==
    \E key \in UpdateKeys, value \in UpdateValues, gpg \in GpgFaults :
        LET r == update(fs, Rel(<<A>>), key, FALSE, "none", <<>>, value, gpg) IN
        /\ fs' = r.fs
        /\ last' = [op |-> "update", res |-> r.res, a |-> Rel(<<A>>), key |-> key, value |-> value]
        /\ nops' = nops + 1
        /\ run' = run

UpdateNext ==
    /\ nops < MaxOps
    /\ UpdateKeyCmd

UpdateSpec == UpdateInit /\ [][UpdateNext]_vars

(***************************************************************************)
(* create and update at a terminal, step by step: the temporary file, the  *)
(* editor, the test of _edit, the end of _tempfile, the store              *)
(***************************************************************************)
\* ctx.temp (VAULT_TEMP) and the file mkstemp makes in it
temp == << <<"t">> >>
TempPath == Append(temp, <<"vault-", DOT, "txt">>)

\* tempfile.mkstemp(dir=ctx.temp, ...): an empty file, or OSError
mkstemp(f) ==
    IF ~IsDir(f, temp) THEN [ok |-> FALSE, fs |-> f]
    ELSE WriteFile(f, TempPath, Clear(<<>>))

\* the finally clause of _tempfile without its unlink
_tempfile_Keep(f, path) == f

\* the finally clause of _tempfile
_tempfile(f, path) ==
    IF Exists(f, path) THEN Unlink(f, path).fs ELSE f

\* the test of _edit: whether it raises 'edit aborted'
_edit_aborted(returncode, before, after) == returncode # 0 \/ after <= before

\* the modification time mkstemp or write_bytes leaves, and those the editor
\* may leave: an earlier one, the same, a later one
Before == 1
MTimes == {Before - 1, Before, Before + 1}

\* the storage root and all below it
Tree(f) == [q \in {x \in DOMAIN f : IsPrefix(storage, x)} |-> f[q]]

EditNames == {Rel(<<A>>), Rel(<<D, A>>), Abs(<<A>>)}

\* a disk with the temporary directory
WithTemp(f) == Put(f, temp, Dir)

EditInit ==
    /\ fs \in {WithTemp(Seeded), WithTemp(Bare), Seeded}
    /\ last = [op |-> "none", res |-> "ok", edited |-> FALSE]
    /\ nops = 0
    /\ run = <<>>

\* the invocation ends with outcome res
Ends(r, res) ==
    /\ run' = <<>>
    /\ last' = [op |-> r.op, res |-> res, a |-> r.a, edited |-> r.edited,
                returncode |-> r.returncode, removed |-> r.removed,
                before |-> r.before, after |-> r.after, tree |-> r.tree]
    /\ nops' = nops + 1

\* an invocation that has not come to its editor
Fresh(op, name) ==
    [op |-> op, a |-> name, edited |-> FALSE, returncode |-> 0, removed |-> FALSE,
     before |-> Before, after |-> Before, tree |-> Tree(fs)]

\* create at a terminal, up to the start of the editor (lines 93-98,
\* 475-478, 492-493)
CreateStart ==
    \E name \in EditNames :
        LET r == _resolve_entry(name)
            made == mkstemp(fs)
        IN /\ run = <<>>
           /\ IF ~r.ok THEN fs' = fs /\ Ends(Fresh("create", name), "PathEscape")
              ELSE IF Exists(fs, r.path) THEN fs' = fs /\ Ends(Fresh("create", name), "Exists")
              ELSE IF ~made.ok THEN fs' = fs /\ Ends(Fresh("create", name), "OSError")
              ELSE /\ fs' = made.fs
                   /\ run' = << [Fresh("create", name) EXCEPT !.edited = TRUE]
                                @@ [pc |-> "editor", entry |-> r.path, path |-> TempPath] >>
                   /\ UNCHANGED <<last, nops>>

\* update at a terminal, up to the start of the editor (lines 123-132,
\* 475-478, 492-493)
UpdateStart ==
    \E name \in EditNames, key \in Keys \cup {<<>>}, gpgOk \in BOOLEAN :
        LET r == _resolve_entry(name)
            loaded == _load(fs, r.path, gpgOk)
            made == mkstemp(fs)
            filled == WriteFile(made.fs, TempPath, Clear(loaded.content))
        IN /\ run = <<>>
           /\ IF ~r.ok THEN fs' = fs /\ Ends(Fresh("update", name), "PathEscape")
              ELSE IF ~IsFile(fs, r.path) THEN fs' = fs /\ Ends(Fresh("update", name), "NotFound")
              ELSE IF loaded.res # "ok" THEN fs' = fs /\ Ends(Fresh("update", name), loaded.res)
              ELSE IF key # <<>> THEN fs' = fs /\ Ends(Fresh("update", name), "Usage")
              ELSE IF ~made.ok THEN fs' = fs /\ Ends(Fresh("update", name), "OSError")
              ELSE /\ fs' = filled.fs
                   /\ run' = << [Fresh("update", name) EXCEPT !.edited = TRUE]
                                @@ [pc |-> "editor", entry |-> r.path, path |-> TempPath] >>
                   /\ UNCHANGED <<last, nops>>

\* the editor runs and ends: it leaves the file alone, writes it or
\* removes it, and exits with zero, with a failure or by a signal
Editor ==
    /\ run # <<>> /\ run[1].pc = "editor"
    /\ \E returncode \in {0, 1, -9}, effect \in {"none", "write", "remove"}, text \in Contents,
          mtime \in MTimes :
        /\ effect = "none" => text = <<"p1">> /\ mtime >= Before
        /\ effect = "remove" => text = <<"p1">> /\ mtime = Before
        /\ fs' = IF effect = "write" THEN WriteFile(fs, run[1].path, Clear(text)).fs
                 ELSE IF effect = "remove" THEN Unlink(fs, run[1].path).fs
                 ELSE fs
        /\ run' = << [run[1] EXCEPT !.pc = "edited", !.returncode = returncode,
                                    !.removed = (effect = "remove"), !.after = mtime] >>
    /\ UNCHANGED <<last, nops>>

\* the rest of _edit and the read of the file (lines 494-496, 99, 133);
\* the read may fail
AfterEdit ==
    /\ run # <<>> /\ run[1].pc = "edited"
    /\ \E readOk \in BOOLEAN :
        LET r == run[1]
            then == IF ~Exists(fs, r.path) THEN "OSError"
                    ELSE IF _edit_aborted(r.returncode, r.before, r.after) THEN "EditAborted"
                    ELSE IF ~readOk THEN "OSError"
                    ELSE "store"
        IN run' = << [r EXCEPT !.pc = "finally"]
                     @@ [then |-> then,
                         content |-> IF then = "store" THEN ReadFile(fs, r.path).text ELSE <<>>] >>
    /\ UNCHANGED <<fs, last, nops>>

\* the with block of _tempfile is left (lines 479-481)
TempfileExit ==
    /\ run # <<>> /\ run[1].pc = "finally"
    /\ fs' = _tempfile(fs, run[1].path)
    /\ IF run[1].then = "store"
       THEN run' = << [run[1] EXCEPT !.pc = "store"] >> /\ UNCHANGED <<last, nops>>
       ELSE Ends(run[1], run[1].then)

\* _store of what the editor left (lines 100, 140)
StoreStep ==
    /\ run # <<>> /\ run[1].pc = "store"
    /\ \E gpgOk \in BOOLEAN :
        LET stored == _store(fs, run[1].entry, run[1].content, gpgOk) IN
        /\ fs' = stored.fs
        /\ Ends(run[1], stored.res)

EditNext ==
    /\ nops < MaxOps
    /\ \/ CreateStart
       \/ UpdateStart
       \/ Editor
       \/ AfterEdit
       \/ TempfileExit
       \/ StoreStep

EditSpec == EditInit /\ [][EditNext]_vars

(***************************************************************************)
(* Two invocations that store to the same entry at the same time, and a    *)
(* third that loads it: _store step by step, the file as the blocks that   *)
(* are in it                                                               *)
(***************************************************************************)
\* the bytes of a ciphertext, in blocks: a header, then as many blocks as
\* the plaintext has tokens (GPG_OPTS has --compress-algo=none)
Bytes(c) == [i \in 1..(Len(c.plain) + 1) |-> [of |-> c, at |-> i]]

\* a file with these blocks in it
Raw(blocks) == [enc |-> TRUE, blocks |-> blocks]

\* open(path, 'wb'): the file is made or cut to nothing
OpenTrunc(f, p) == WriteFile(f, p, Raw(<<>>))

\* write(bytes) at the start of an open file: what lay beyond stays
WriteAt0(f, p, bytes) ==
    LET old == ReadFile(f, p).blocks IN
    WriteFile(f, p, Raw(bytes \o SubSeq(old, Len(bytes) + 1, Len(old))))

\* gpg --decrypt of these blocks succeeds when they are one whole ciphertext
Whole(blocks) ==
    /\ blocks # <<>>
    /\ blocks = Bytes(blocks[1].of)

RaceEntry == _resolve_entry(Rel(<<D, A>>)).path
RaceContents == {<<"p1">>, <<"p2", NL, "a">>}

\* the store before the race: initialized, the entry there or not
RaceDisks ==
    LET f == init(Bare, <<"k1">>, NoName, FALSE, FALSE, 0).fs
        g == Mkdir(f, Parent(RaceEntry)).fs
    IN {f, WriteFile(g, RaceEntry, Raw(Bytes(Cipher(<<"p1">>, {<<"k1">>})))).fs}

RaceInit ==
    /\ fs \in RaceDisks
    /\ run \in {<< [pc |-> "encrypt", content |-> c1, output |-> <<>>, res |-> "none"],
                   [pc |-> "encrypt", content |-> c2, output |-> <<>>, res |-> "none"] >> :
                 c1 \in RaceContents, c2 \in RaceContents}
    /\ last = [op |-> "none", res |-> "ok"]
    /\ nops = 0

\* lines 329-332: the recipients are found and gpg encrypts
EncryptStep(i) ==
    /\ run[i].pc = "encrypt"
    /\ \E gpgOk \in BOOLEAN :
        LET gpgid == _find_gpgid(fs, storage, RaceEntry)
            recipients == _read_gpgid(fs, gpgid)
        IN run' = [run EXCEPT ![i] =
                    IF gpgid = NoGpgid THEN [@ EXCEPT !.pc = "done", !.res = "NotInitialized"]
                    ELSE IF ~gpgOk \/ recipients = {}
                    THEN [@ EXCEPT !.pc = "done", !.res = "CryptoFailure"]
                    ELSE [@ EXCEPT !.pc = "mkdir",
                                   !.output = Bytes(Cipher(run[i].content, recipients))]]
    /\ UNCHANGED <<fs, last, nops>>

\* line 333: entry.parent.mkdir(parents=True, exist_ok=True)
MkdirStep(i) ==
    /\ run[i].pc = "mkdir"
    /\ LET made == Mkdir(fs, Parent(RaceEntry)) IN
       /\ fs' = made.fs
       /\ run' = [run EXCEPT ![i] = IF made.ok THEN [@ EXCEPT !.pc = "open"]
                                    ELSE [@ EXCEPT !.pc = "done", !.res = "OSError"]]
    /\ UNCHANGED <<last, nops>>

\* line 334, entry.write_bytes(output): first the file is opened for writing
OpenStep(i) ==
    /\ run[i].pc = "open"
    /\ LET opened == OpenTrunc(fs, RaceEntry) IN
       /\ fs' = opened.fs
       /\ run' = [run EXCEPT ![i] = IF opened.ok THEN [@ EXCEPT !.pc = "write"]
                                    ELSE [@ EXCEPT !.pc = "done", !.res = "OSError"]]
    /\ UNCHANGED <<last, nops>>

\* line 334: then the output is written and the file closed
WriteStep(i) ==
    /\ run[i].pc = "write"
    /\ fs' = WriteAt0(fs, RaceEntry, run[i].output).fs
    /\ run' = [run EXCEPT ![i] = [@ EXCEPT !.pc = "done", !.res = "ok"]]
    /\ UNCHANGED <<last, nops>>

\* lines 322-325, _load of the entry by a third invocation: what it reads
\* and whether gpg decrypts it
LoadStep ==
    /\ IsFile(fs, RaceEntry)
    /\ LET blocks == ReadFile(fs, RaceEntry).blocks IN
       last' = [op |-> "load", res |-> IF Whole(blocks) THEN "ok" ELSE "CryptoFailure",
                blocks |-> blocks]
    /\ UNCHANGED <<fs, nops, run>>

RaceNext ==
    \/ \E i \in 1..2 : EncryptStep(i)
    \/ \E i \in 1..2 : MkdirStep(i)
    \/ \E i \in 1..2 : OpenStep(i)
    \/ \E i \in 1..2 : WriteStep(i)
    \/ LoadStep

RaceSpec == RaceInit /\ [][RaceNext]_vars

(***************************************************************************)
(* What the claims speak of                                                *)
(***************************************************************************)
\* os.path.normpath: the path with every ".." taken against what precedes it
RECURSIVE Norm(_)
Norm(p) ==
    IF p = <<>> THEN <<>>
    ELSE IF Last(p) = DOTDOT THEN Parent(Norm(Front(p)))
    ELSE Append(Norm(Front(p)), Last(p))

\* the entry path of the command's first and second name
EntryA(l) == _resolve_entry(l.a).path
EntryB(l) == _resolve_entry(l.b).path

\* where copy and move write: inside the destination when it is a directory
TargetOf(f, source, destination) ==
    IF IsDir(f, destination) THEN Append(destination, Last(source)) ELSE destination

\* the directories from the physical directory `dir` up to the storage root
Chain(dir) == {SubSeq(dir, 1, n) : n \in Len(storage)..Len(dir)}

\* the recipient-list file that governs the physical directory `dir`: the
\* one of the deepest directory of its chain that has one
Governing(f, dir) ==
    LET have == {c \in Chain(dir) : IsPrefix(storage, c) /\ IsFile(f, Append(c, GPGID))} IN
    IF have = {} THEN NoGpgid
    ELSE Append(CHOOSE c \in have : \A x \in have : Len(x) <= Len(c), GPGID)

(***************************************************************************)
(* C1  Containment                                                         *)
(***************************************************************************)
\* C1: every name that _resolve_entry or _resolve_subdir accepts denotes a
\* location strictly inside the storage root, so nothing but the storage
\* root and what lies below it is ever created, written or removed: every
\* node of the file system other than "/" is the root or one of its
\* descendants.
C1_Containment ==
    /\ \A q \in DOMAIN fs : q = <<>> \/ IsPrefix(storage, q)
    /\ last.op = "init" /\ last.res # "PathEscape" /\ last.a # NoName
          => InParents(storage, Norm(_resolve_subdir(last.a).path))
    /\ last.op \notin {"init", "none"} /\ last.res # "PathEscape"
          => InParents(storage, Norm(EntryA(last)))

(***************************************************************************)
(* C2  move: the source is gone, the destination holds its content         *)
(***************************************************************************)
\* C2: whenever move(src, dst, force) succeeds, afterwards the source is no
\* file any more and the destination is a file that decrypts to what the
\* source held before the move.
C2_MoveResult ==
    [][ last'.op = "move" /\ last'.res = "ok"
        => LET source == Norm(EntryA(last'))
               target == Norm(TargetOf(fs, EntryA(last'), EntryB(last')))
           IN /\ source \notin DOMAIN fs'
              /\ target \in DOMAIN fs'
              /\ fs'[target].kind = "file"
              /\ fs'[target].data.enc
              /\ fs'[target].data.plain = fs[source].data.plain ]_vars

(***************************************************************************)
(* C3  move deletes only after a successful copy                           *)
(***************************************************************************)
\* the outcomes with which the copy step of move fails
CopyFailures == {"SourceNotFound", "DestinationExists", "NotInitialized", "CryptoFailure"}

\* C3: when the copy step of a move fails (the source is missing, the
\* destination exists and force is not given, no recipient file is found,
\* gpg fails to decrypt or to encrypt), the move ends with that failure and
\* the file system is exactly as it was: the source, its ancestors and all
\* else are untouched, nothing is deleted or pruned.
C3_MoveFailedCopy ==
    [][ last'.op = "move" /\ last'.res \in CopyFailures => fs' = fs ]_vars

\* a move has failed in its copy step, on a destination that exists, and the
\* source is still a file
C3_Witness ==
    /\ last.op = "move"
    /\ last.res = "DestinationExists"
    /\ IsFile(fs, EntryA(last))
    /\ Real(fs, EntryA(last)) # Real(fs, EntryB(last))

(***************************************************************************)
(* C4  delete prunes exactly the ancestors that became empty               *)
(***************************************************************************)
\* the file system after removing the secret at the physical path e and
\* then every directory strictly below the storage root, on the way up from
\* e, that holds nothing but directories of that way
Pruned(f, e) ==
    LET g == Remove(f, e)
        way == {SubSeq(e, 1, n) : n \in (Len(storage) + 1)..(Len(e) - 1)}
        gone == {d \in way : IsPrefix(storage, d)
                    /\ \A x \in DOMAIN g : InParents(d, x) => x \in way}
    IN [x \in (DOMAIN g) \ gone |-> g[x]]

\* C4: a successful delete removes the entry file and exactly those
\* ancestor directories, from the entry's parent upward, that have become
\* empty, stopping at the first directory that is not empty or at the
\* storage root; the storage root is never removed.
C4_DeletePrunes ==
    [][ last'.op = "delete" /\ last'.res = "ok"
        => /\ fs' = Pruned(fs, Real(fs, EntryA(last')))
           /\ storage \in DOMAIN fs' ]_vars

C6_CopyIntoDirectory ==
    [][ /\ last'.op \in {"copy", "move"}
        /\ last'.res = "ok"
        /\ IsDir(fs, _resolve_subdir(last'.b).path)
        => LET dir == Norm(_resolve_subdir(last'.b).path)
               inside == Append(dir, Last(EntryA(last')))
               beside == Norm(EntryB(last'))
           IN /\ inside \in DOMAIN fs'
              /\ fs'[inside].kind = "file"
              /\ fs'[inside].data.enc
              /\ fs'[inside].data.plain = fs[Norm(EntryA(last'))].data.plain
              /\ beside \in DOMAIN fs' => beside \in DOMAIN fs /\ fs'[beside] = fs[beside] ]_vars

(***************************************************************************)
(* C7  the nearest recipient file                                          *)
(***************************************************************************)
\* C7: for every entry, _find_gpgid returns the recipient file of the
\* deepest directory, from the entry's directory up to and including the
\* storage root, that has one, consults no other directory, and fails
\* (NotInitialized) exactly when none of these directories has one.
C7_FindRecipientFile ==
    \A name \in EntryNames :
        LET r == _resolve_entry(name)
            found == _find_gpgid(fs, storage, r.path)
            want == Governing(fs, Parent(Norm(r.path)))
        IN r.ok => IF want = NoGpgid THEN found = NoGpgid
                   ELSE found # NoGpgid /\ Real(fs, found) = want

(***************************************************************************)
(* C8  every secret is encrypted to its governing recipient set            *)
(***************************************************************************)
RecipientInv(f) ==
    \A q \in Secrets(f) :
        LET g == Governing(f, Parent(q)) IN
        g # NoGpgid /\ f[q].data.rcpts = _read_gpgid(f, g)

\* C8: every successful command keeps the recipient invariant: if every
\* secret is encrypted to exactly the recipients of its nearest recipient
\* file before the command, the same holds after it.
C8_RecipientInvariant ==
    [][ RecipientInv(fs) /\ last'.res = "ok" => RecipientInv(fs') ]_vars

(***************************************************************************)
(* C9  init                                                                *)
(***************************************************************************)
\* C9: init without force on a directory that has a recipient file fails
\* with AlreadyInitialized and changes nothing; with force it rewrites the
\* file to the recipients it held and the new one; on a directory without a
\* recipient file it creates the directory with its ancestors and writes
\* the file with the new recipient alone.
C9_Init ==
    [][ last'.op = "init" /\ last'.res # "PathEscape"
        => LET base == IF last'.a = NoName THEN storage ELSE _resolve_subdir(last'.a).path
               keyfile == Append(base, GPGID)
               had == IsFile(fs, keyfile)
           IN /\ had /\ ~last'.force <=> last'.res = "AlreadyInitialized"
              /\ last'.res = "AlreadyInitialized" => fs' = fs
              /\ last'.res # "AlreadyInitialized"
                    => /\ last'.res \in {"ok", "CryptoFailure"}
                       /\ IsDir(fs', base)
                       /\ IsFile(fs', keyfile)
                       /\ ~ReadFile(fs', keyfile).enc
                       /\ _read_gpgid(fs', keyfile) =
                            (IF had THEN _read_gpgid(fs, keyfile) ELSE {}) \cup {last'.keyid} ]_vars

\* a forced init has added a second recipient to a directory's file
C9_Witness ==
    /\ last.op = "init" /\ last.res = "ok" /\ last.force /\ last.existed
    /\ LET base == IF last.a = NoName THEN storage ELSE _resolve_subdir(last.a).path IN
       /\ IsFile(fs, Append(base, GPGID))
       /\ _read_gpgid(fs, Append(base, GPGID)) = KeyIds

(***************************************************************************)
(* C10  a failed store changes nothing                                     *)
(***************************************************************************)
\* C10: when store, create, update or copy fails because no recipient file
\* is found or because gpg fails, the file system is as it was: no
\* directory has been created and the entry, if it existed, is unchanged.
C10_FailedStore ==
    [][ /\ last'.op \in {"store", "create", "update", "copy"}
        /\ last'.res \in {"NotInitialized", "CryptoFailure"}
        => fs' = fs ]_vars

(***************************************************************************)
(* C11  parse(format(x)) = x                                               *)
(***************************************************************************)
\* the key constraints on a dict: below the password item the keys are
\* distinct, none is `password`, none holds ":" or " "
KeysOk(x) ==
    /\ x # <<>> /\ x[1][1] = PASSWORD
    /\ \A i, j \in 2..Len(x) : i # j => x[i][1] # x[j][1]
    /\ \A i \in 2..Len(x) :
        /\ x[i][1] # PASSWORD
        /\ \A n \in 1..Len(x[i][1]) : x[i][1][n] \notin {":", " "}

\* C11: for every dict x (a password and ordered attributes) that meets the
\* key constraints, whatever its password and its values are, _format(x)
\* succeeds and _parse of its result gives x back: the same password, keys,
\* values and order.
C11_RoundTrip ==
    last.op = "_format" /\ KeysOk(last.x)
        => /\ last.formatted.ok
           /\ last.parsed.ok
           /\ last.parsed.attrs = last.x

(***************************************************************************)
(* C12  the errors of parse                                                *)
(***************************************************************************)
\* the key of a line: what stands before its first ": "
KeyOfLine(line) == SubSeq(line, 1, FindColonSpace(line) - 1)

\* why the line with index i of the content (the password line has index
\* 0) is refused, "none" when it is not
Offence(lines, i) ==
    LET line == lines[i + 1] IN
    IF i = 0 \/ line = <<>> THEN "none"
    ELSE IF FindColonSpace(line) = 0 THEN "invalid key-value format"
    ELSE IF KeyOfLine(line) = PASSWORD THEN "disallowed key"
    ELSE IF \E j \in 1..(i - 1) : /\ FindColonSpace(lines[j + 1]) # 0
                                  /\ KeyOfLine(lines[j + 1]) = KeyOfLine(line)
         THEN "repeated key"
    ELSE "none"

\* C12: _parse takes line 0 of the content as the password and skips blank
\* lines; it fails exactly when some later line has no ": " (invalid
\* key-value format), has the key `password` (disallowed key) or has a key
\* that occurred before (repeated key), and then it reports the first such
\* line, by its index within the content, with that reason.
C12_ParseErrors ==
    last.op = "_parse"
        => LET lines == last.lines
               bad == {i \in 0..(Len(lines) - 1) : Offence(lines, i) # "none"}
               first == CHOOSE i \in bad : \A j \in bad : i <= j
           IN IF bad = {}
              THEN last.out.ok /\ last.out.attrs[1] = <<PASSWORD, lines[1]>>
              ELSE /\ ~last.out.ok
                   /\ last.out.reason = Offence(lines, first)
                   /\ last.out.line = first

(***************************************************************************)
(* C13  unresolve(resolveEntry(n)) = n                                     *)
(***************************************************************************)
\* a valid logical name: relative, with segments, none empty or hidden
ValidName(name) ==
    /\ ~name.abs
    /\ name.segs # <<>>
    /\ \A i \in 1..Len(name.segs) : name.segs[i] # <<>> /\ ~StartsWith(name.segs[i], <<DOT>>)

\* C13: for every valid logical name n, _resolve_entry accepts n and
\* _unresolve of the entry path gives n back, also when the last segment
\* of n ends in ".gpg" itself and when n has several directory levels.
C13_UnresolveResolve ==
    last.op = "_unresolve" /\ ValidName(last.name)
        => last.entry.ok /\ last.out = last.name.segs

\* a name of several levels whose last segment ends in ".gpg" has made the
\* round trip
C13_Witness ==
    /\ last.op = "_unresolve" /\ ValidName(last.name)
    /\ Len(last.name.segs) >= 2
    /\ EndsWith(Last(last.name.segs), EXT)
    /\ EndsWith(Last(last.entry.path), EXT \o EXT)
    /\ last.out = last.name.segs

(***************************************************************************)
(* C14  reading and writing the recipient file                             *)
(***************************************************************************)
\* str.strip: the string without the white space at its two ends
RECURSIVE LStrip(_)
LStrip(s) == IF s # <<>> /\ s[1] \in {" ", NL} THEN LStrip(Tail(s)) ELSE s
Trim(s) == LStrip(RStrip(s))

\* C14: _read_gpgid gives one identifier for each line that is not blank,
\* without the white space around it, and none for a blank line;
\* _write_gpgid replaces the file's content by the identifiers, each once,
\* one per line, in ascending order; reading what was written gives the
\* set back.
C14_Recipients ==
    /\ last.op = "_read_gpgid"
        => LET lines == SplitLines(last.text) IN
           last.out = {Trim(lines[i]) : i \in 1..Len(lines)} \ {<<>>}
    /\ last.op = "_write_gpgid"
        => LET lines == SplitLines(last.text) IN
           /\ last.ok
           /\ {lines[i] : i \in 1..Len(lines)} = last.recipients
           /\ \A i, j \in 1..Len(lines) : i < j => StrLess(lines[i], lines[j])
           /\ last.out = last.recipients

(***************************************************************************)
(* C17  what the tree walk yields                                          *)
(***************************************************************************)
\* the paths below `base` that a walk with these flags is to yield: not
\* hidden and below no hidden directory, directly in base unless the walk
\* is recursive, a file with the extension when files are wanted or a
\* directory when directories are wanted
Qualifying(f, base, recursive, include_dirs, include_files) ==
    {q \in DOMAIN f :
        /\ InParents(base, q)
        /\ \A n \in (Len(base) + 1)..Len(q) : ~StartsWith(q[n], <<DOT>>)
        /\ recursive \/ Len(q) = Len(base) + 1
        /\ \/ f[q].kind = "file" /\ EndsWith(Last(q), EXT) /\ include_files
           \/ f[q].kind = "dir" /\ include_dirs}

\* C17: _iter yields exactly the qualifying paths below base (files with
\* the extension when include_files, directories when include_dirs, below
\* the first level only when recursive, never a hidden entry nor anything
\* below a hidden directory), each once, a directory before all that lies
\* below it.
C17_Iterate ==
    last.op = "_iter"
        => LET out == last.out IN
           /\ {out[i] : i \in 1..Len(out)}
                = Qualifying(fs, last.base, last.recursive, last.include_dirs, last.include_files)
           /\ \A i, j \in 1..Len(out) : i # j => out[i] # out[j]
           /\ \A i, j \in 1..Len(out) : InParents(out[i], out[j]) => i < j

\* a recursive walk for files and directories, over a tree with a secret
\* in a hidden directory and one two directories down, has yielded the
\* latter after its directories
C17_Witness ==
    /\ last.op = "_iter" /\ last.base = storage
    /\ last.recursive /\ last.include_dirs /\ last.include_files
    /\ <<S, <<DOT, "d">>, A \o EXT>> \in DOMAIN fs
    /\ <<S, D, <<DOT>> \o A \o EXT>> \in DOMAIN fs
    /\ \E i, j, k \in 1..Len(last.out) :
        /\ i < j /\ j < k
        /\ last.out[i] = <<S, D>>
        /\ last.out[j] = <<S, D, D>>
        /\ last.out[k] = <<S, D, D, A \o EXT>>

(***************************************************************************)
(* C20  create never overwrites                                            *)
(***************************************************************************)
\* C20: create on a name whose entry exists fails with 'secret already
\* exists' and leaves the file system, the existing secret included, as it
\* was; a create that succeeds has added an entry that was not there.
C20_CreateNeverOverwrites ==
    [][ last'.op = "create" /\ last'.res # "PathEscape"
        => LET entry == Norm(EntryA(last')) IN
           /\ entry \in DOMAIN fs => last'.res = "Exists" /\ fs' = fs
           /\ last'.res = "ok" => entry \notin DOMAIN fs /\ entry \in DOMAIN fs' ]_vars

(***************************************************************************)
(* C19  update of one key                                                  *)
(***************************************************************************)
\* the items of a dict other than that of `key`, in their order
Others(attrs, key) == SelectSeq(attrs, LAMBDA kv : kv[1] # key)

\* whether a key holds a character _format refuses
Illegal(key) == \E n \in 1..Len(key) : key[n] \in {":", " "}

\* C19: a successful update of one key with a value from standard input
\* leaves a body that parses, in which the key has the supplied value and
\* the password and all other attributes have their old values and
\* order (the key `password` replaces the password line alone); an update
\* that fails in _format, the key holding ":" or " ", leaves the secret
\* as it was.
C19_UpdateKey ==
    [][ last'.op = "update"
        => LET entry == Norm(EntryA(last'))
               before == _parse(fs[entry].data.plain)
               after == _parse(fs'[entry].data.plain)
           IN /\ last'.res = "ok"
                    => /\ after.ok
                       /\ \E i \in 1..Len(after.attrs) : after.attrs[i] = <<last'.key, last'.value>>
                       /\ Others(after.attrs, last'.key) = Others(before.attrs, last'.key)
              /\ last'.res = "FormatError" => Illegal(last'.key) /\ fs' = fs
              /\ Illegal(last'.key) => last'.res # "ok" /\ fs' = fs ]_vars

(***************************************************************************)
(* C15  an aborted edit stores nothing                                     *)
(***************************************************************************)
\* C15: when the editor of a create or update at a terminal has exited
\* non-zero, or has left the file with a modification time that is not
\* later than before, the command ends with EditAborted and the storage
\* tree is what it was before the command.
C15_EditAborted ==
    /\ last.op \in {"create", "update"} /\ last.edited
    /\ last.returncode # 0 \/ (~last.removed /\ last.after <= last.before)
    => /\ last.res = "EditAborted"
       /\ Tree(fs) = last.tree

(***************************************************************************)
(* C16  the temporary file is removed                                      *)
(***************************************************************************)
\* C16: when a create or update has ended, however it ended, the file it
\* made for the editor is gone, and it is gone already when the store step
\* begins.
C16_TempRemoved ==
    /\ run = <<>> => \A q \in DOMAIN fs : ~InParents(temp, q)
    /\ run # <<>> /\ run[1].pc = "store" => ~Exists(fs, run[1].path)

\* an update has ended EditAborted after its editor, killed by a signal,
\* had written to the file, and the temporary directory is empty
C16_Witness ==
    /\ run = <<>>
    /\ last.op = "update" /\ last.edited /\ last.res = "EditAborted"
    /\ last.returncode < 0 /\ ~last.removed /\ last.after > last.before
    /\ IsDir(fs, temp)
    /\ \A q \in DOMAIN fs : ~InParents(temp, q)

(***************************************************************************)
(* C18  two stores to one entry                                            *)
(***************************************************************************)
\* C18: when two invocations have stored to the same entry at the same
\* time and both have ended with success, the entry is a file that holds
\* the whole ciphertext of one of the two, neither a mixture of the two nor
\* nothing, however their steps fell.
C18_LastWriterWins ==
    (\A i \in 1..2 : run[i].pc = "done" /\ run[i].res = "ok")
        => /\ IsFile(fs, RaceEntry)
           /\ \E i \in 1..2 : ReadFile(fs, RaceEntry).blocks = run[i].output

====
